---- MODULE Spec2Model ----
(***************************************************************************)
(* File parsing and field-mapping pipeline of file-parsing-api-node:       *)
(* server.js (detect, parse, normalize, validate, upload and mapping       *)
(* endpoints), db.js (saveRecords on PostgreSQL) and config.js (mappings   *)
(* and validation rules).                                                  *)
(*                                                                         *)
(* JavaScript strings that the code inspects (field names, aliases, file   *)
(* names, stored values) are sequences of one-character strings, so that   *)
(* toLowerCase, trim, includes and length are computed.  Property names    *)
(* that are only compared for equality are TLA+ strings.                   *)
(***************************************************************************)
EXTENDS Integers, Sequences, FiniteSets, TLC

VARIABLES
  fieldMappings,    \* server.js fieldMappings: mapping name -> config
  mappingResponse,  \* status of the last POST /api/mappings response
  listing,          \* body of the last GET /api/mappings response
  table,            \* committed rows of the records table: auth_id -> row
  pc,               \* where the upload handler is suspended
  fileType,         \* processFile: detected type of the file being parsed
  originalname,     \* req.file.originalname while processFile detects and parses
  parsed,           \* settlement of the parser's promise: "none", "resolved", "rejected"
  source,           \* req.body.source of the request in progress
  tmpFile,          \* the multer temporary file exists in uploads/
  result,           \* processFile's return value
  txTable,          \* rows as seen inside saveRecords' open transaction
  txAborted,        \* the open transaction is in the failed state
  idx,              \* saveRecords: index of the next record of the loop
  savedCount,       \* saveRecords: savedCount
  recordErrors,     \* number of recordError exceptions caught and logged
  applied,          \* indices of the batch whose statement succeeded
  persisted,        \* indices of the batch whose statement was committed
  response,         \* last response of POST /api/upload
  stages,           \* stages the request in progress has entered
  nRecord,          \* normalizeRecord under test: record
  nKey,             \* normalizeRecord under test: mappingKey
  nOut,             \* normalizeRecord under test: returned value
  nValid,           \* validation filter's verdict on nOut
  nStage,           \* "input", "normalized", "threw", "validated"
  jDoc,             \* parseJSON under test: the file read
  jOut,             \* parseJSON under test: settlement of the returned promise
  jStage,           \* "off", "input", "settled"
  cPc,              \* concurrent uploads: where each handler is suspended
  cFile,            \* concurrent uploads: each request's file
  cSource,          \* concurrent uploads: each request's req.body.source
  cRead,            \* concurrent uploads: the config normalizeRecord read
  cResult,          \* concurrent uploads: processFile's return value
  cResponse,        \* concurrent uploads: the response of each request
  cSubmitted,       \* concurrent uploads: the config registered when the request arrived
  tData,            \* parseText under test: the text of the file
  tDelimiter,       \* parseText under test: the delimiter chosen
  tOut,             \* parseText under test: settlement of the returned promise
  tStage,           \* "off", "input", "settled"
  wState,           \* workflow: the state the execution is in
  wData,            \* workflow: the execution's JSON data (ResultPath fields)
  wTrail,           \* workflow: the states entered so far
  chain,            \* Blockchain.chain
  chainValid,       \* value of the last isChainValid() call: "none", "true", "false"
  tampered          \* index of the block whose data was modified, 0 if none

regVars == <<fieldMappings, mappingResponse, listing>>
runVars == <<pc, fileType, originalname, parsed, source, tmpFile, result, response, stages>>
dbVars == <<table, txTable, txAborted, idx, savedCount, recordErrors, applied, persisted>>
normVars == <<nRecord, nKey, nOut, nValid, nStage>>
jsonVars == <<jDoc, jOut, jStage>>
concVars == <<cPc, cFile, cSource, cRead, cResult, cResponse, cSubmitted>>
textVars == <<tData, tDelimiter, tOut, tStage>>
flowVars == <<wState, wData, wTrail>>
chainVars == <<chain, chainValid, tampered>>
sideVars == <<textVars, flowVars, chainVars>>
vars == <<regVars, runVars, dbVars, normVars, jsonVars, concVars, sideVars>>

----------------------------------------------------------------------------
(* Bounds *)
MaxKeys == 3        \* keys of a raw record given to normalizeRecord
MaxRecords == 3     \* records in one uploaded file

----------------------------------------------------------------------------
(* String literals of config.js, test_api.sh and the sample files *)
s_name == <<"n", "a", "m", "e">>
s_full_name == <<"f", "u", "l", "l", "_", "n", "a", "m", "e">>
s_customer_name == <<"c", "u", "s", "t", "o", "m", "e", "r", "_", "n", "a", "m", "e">>
s_client_name == <<"c", "l", "i", "e", "n", "t", "_", "n", "a", "m", "e">>
s_address == <<"a", "d", "d", "r", "e", "s", "s">>
s_address1 == <<"a", "d", "d", "r", "e", "s", "s", "1">>
s_street_address == <<"s", "t", "r", "e", "e", "t", "_", "a", "d", "d", "r", "e", "s", "s">>
s_street == <<"s", "t", "r", "e", "e", "t">>
s_city == <<"c", "i", "t", "y">>
s_town == <<"t", "o", "w", "n">>
s_state == <<"s", "t", "a", "t", "e">>
s_province == <<"p", "r", "o", "v", "i", "n", "c", "e">>
s_region == <<"r", "e", "g", "i", "o", "n">>
s_zip == <<"z", "i", "p">>
s_zipcode == <<"z", "i", "p", "c", "o", "d", "e">>
s_postal_code == <<"p", "o", "s", "t", "a", "l", "_", "c", "o", "d", "e">>
s_postalcode == <<"p", "o", "s", "t", "a", "l", "c", "o", "d", "e">>
s_zip_code == <<"z", "i", "p", "_", "c", "o", "d", "e">>
s_auth_id == <<"a", "u", "t", "h", "_", "i", "d">>
s_authid == <<"a", "u", "t", "h", "i", "d">>
s_authorization_id == <<"a", "u", "t", "h", "o", "r", "i", "z", "a", "t", "i", "o", "n", "_", "i", "d">>
s_auth == <<"a", "u", "t", "h">>
s_id == <<"i", "d">>
s_customer == <<"c", "u", "s", "t", "o", "m", "e", "r">>
s_primary_address == <<"p", "r", "i", "m", "a", "r", "y", "_", "a", "d", "d", "r", "e", "s", "s">>
s_customer_city == <<"c", "u", "s", "t", "o", "m", "e", "r", "_", "c", "i", "t", "y">>
s_customer_state == <<"c", "u", "s", "t", "o", "m", "e", "r", "_", "s", "t", "a", "t", "e">>
s_customer_zip == <<"c", "u", "s", "t", "o", "m", "e", "r", "_", "z", "i", "p">>
s_customer_id == <<"c", "u", "s", "t", "o", "m", "e", "r", "_", "i", "d">>
s_billing_address == <<"b", "i", "l", "l", "i", "n", "g", "_", "a", "d", "d", "r", "e", "s", "s">>
s_billing_city == <<"b", "i", "l", "l", "i", "n", "g", "_", "c", "i", "t", "y">>
s_billing_state == <<"b", "i", "l", "l", "i", "n", "g", "_", "s", "t", "a", "t", "e">>
s_billing_zip == <<"b", "i", "l", "l", "i", "n", "g", "_", "z", "i", "p">>
s_client_code == <<"c", "l", "i", "e", "n", "t", "_", "c", "o", "d", "e">>
s_ZIP_padded == <<" ", "Z", "I", "P", " ">>
s_empty == <<>>

----------------------------------------------------------------------------
(* String.prototype functions used by server.js *)

\* code units that toLowerCase changes, with their images
LowerOf ==
  [c \in {"A","B","C","D","E","F","G","H","I","J","K","L","M",
          "N","O","P","Q","R","S","T","U","V","W","X","Y","Z"} |->
     CASE c = "A" -> "a" [] c = "B" -> "b" [] c = "C" -> "c" [] c = "D" -> "d"
       [] c = "E" -> "e" [] c = "F" -> "f" [] c = "G" -> "g" [] c = "H" -> "h"
       [] c = "I" -> "i" [] c = "J" -> "j" [] c = "K" -> "k" [] c = "L" -> "l"
       [] c = "M" -> "m" [] c = "N" -> "n" [] c = "O" -> "o" [] c = "P" -> "p"
       [] c = "Q" -> "q" [] c = "R" -> "r" [] c = "S" -> "s" [] c = "T" -> "t"
       [] c = "U" -> "u" [] c = "V" -> "v" [] c = "W" -> "w" [] c = "X" -> "x"
       [] c = "Y" -> "y" [] c = "Z" -> "z"]

toLowerCaseChar(c) == IF c \in DOMAIN LowerOf THEN LowerOf[c] ELSE c

toLowerCase(s) == [i \in 1..Len(s) |-> toLowerCaseChar(s[i])]

IsWhiteSpace(c) == c \in {" ", "\t", "\n", "\r"}

RECURSIVE trimStart(_)
trimStart(s) ==
  IF s # <<>> /\ IsWhiteSpace(Head(s)) THEN trimStart(Tail(s)) ELSE s

RECURSIVE trimEnd(_)
trimEnd(s) ==
  IF s # <<>> /\ IsWhiteSpace(s[Len(s)])
    THEN trimEnd(SubSeq(s, 1, Len(s) - 1))
    ELSE s

trim(s) == trimEnd(trimStart(s))

\* s.includes(f): f occurs in s as a contiguous substring
includes(s, f) ==
  \E i \in 0..(Len(s) - Len(f)) : \A k \in 1..Len(f) : s[i + k] = f[k]

----------------------------------------------------------------------------
(* Values of record fields: JSON/CSV scalars *)

Null == [t |-> "null", s |-> <<>>]
Str(s) == [t |-> "str", s |-> s]

\* JavaScript truthiness of a field value (null, undefined and "" are falsy)
Truthy(v) == v.t = "str" /\ Len(v.s) > 0

\* A raw record: the parsed object's own entries in insertion order, or the
\* JSON value null (parseJSON passes array elements through unchecked).
RawObject(entries) == [isNull |-> FALSE, entries |-> entries]
RawNull == [isNull |-> TRUE, entries |-> <<>>]
Entry(k, v) == [key |-> k, value |-> v]

----------------------------------------------------------------------------
(* config.js *)

DefaultMapping ==
  [ name     |-> <<s_name, s_full_name, s_customer_name, s_client_name>>,
    address1 |-> <<s_address, s_address1, s_street_address, s_street>>,
    city     |-> <<s_city, s_town>>,
    state    |-> <<s_state, s_province, s_region>>,
    zip      |-> <<s_zip, s_zipcode, s_postal_code, s_postalcode, s_zip_code>>,
    authId   |-> <<s_auth_id, s_authid, s_authorization_id, s_auth, s_id>> ]

Vendor1Mapping ==
  [ name     |-> <<s_customer>>,
    address1 |-> <<s_primary_address>>,
    city     |-> <<s_customer_city>>,
    state    |-> <<s_customer_state>>,
    zip      |-> <<s_customer_zip>>,
    authId   |-> <<s_customer_id>> ]

InitialFieldMappings == [default |-> DefaultMapping, vendor1 |-> Vendor1Mapping]

requiredFields == <<"name", "authId">>

IsDigit(c) == c \in {"0","1","2","3","4","5","6","7","8","9"}

\* validation.rules.zip.pattern: /^\d{5}(-\d{4})?$/
zipPattern(s) ==
  \/ Len(s) = 5 /\ \A i \in 1..5 : IsDigit(s[i])
  \/ /\ Len(s) = 10
     /\ \A i \in 1..5 : IsDigit(s[i])
     /\ s[6] = "-"
     /\ \A i \in 7..10 : IsDigit(s[i])

\* validation.rules.state.maxLength
stateMaxLength == 2

----------------------------------------------------------------------------
(* server.js: normalizeRecord *)

\* fieldMappings is a plain object: a property read that finds no own property
\* goes on to Object.prototype, whose properties are these
ObjectPrototypeKeys ==
  {"constructor", "__proto__", "hasOwnProperty", "isPrototypeOf",
   "propertyIsEnumerable", "toLocaleString", "toString", "valueOf"}

\* An inherited property is a function or Object.prototype itself: truthy,
\* and Object.keys / Object.entries of it are empty
InheritedValue == [targetField \in {} |-> <<>>]

\* fieldMappings[mappingKey] || fieldMappings.default
ActiveMapping(mappingKey) ==
  IF mappingKey \in DOMAIN fieldMappings
    THEN fieldMappings[mappingKey]
    ELSE IF mappingKey \in ObjectPrototypeKeys
           THEN InheritedValue
           ELSE fieldMappings["default"]

\* possibleSourceFields.some(f => f.toLowerCase() === sourceFieldLower ||
\*                                sourceFieldLower.includes(f.toLowerCase()))
someAliasMatches(possibleSourceFields, sourceFieldLower) ==
  \E j \in 1..Len(possibleSourceFields) :
    \/ toLowerCase(possibleSourceFields[j]) = sourceFieldLower
    \/ includes(sourceFieldLower, toLowerCase(possibleSourceFields[j]))

\* Variant: the record starts empty, the null initialisation is left out
initNoFields(mapping) == [targetField \in {t \in DOMAIN mapping : FALSE} |-> Null]

\* Object.keys(mapping).forEach(targetField => normalizedRecord[targetField] = null)
initNulls(mapping) == [targetField \in DOMAIN mapping |-> Null]

\* Body of the outer forEach for one [sourceField, value] entry: every target
\* field with a matching alias is assigned the entry's value.
assignEntry(mapping, normalizedRecord, entry) ==
  LET sourceFieldLower == trim(toLowerCase(entry.key))
      hit == {targetField \in DOMAIN mapping :
                someAliasMatches(mapping[targetField], sourceFieldLower)}
  IN [targetField \in (DOMAIN normalizedRecord) \cup hit |->
        IF targetField \in hit THEN entry.value
                               ELSE normalizedRecord[targetField]]

RECURSIVE assignEntries(_, _, _, _)
assignEntries(mapping, normalizedRecord, entries, i) ==
  IF i > Len(entries)
    THEN normalizedRecord
    ELSE assignEntries(mapping,
                       assignEntry(mapping, normalizedRecord, entries[i]),
                       entries, i + 1)

\* Object.entries(record) raises TypeError when record is null
normalizeThrows(record) == record.isNull

\* Returned value: threw = TRUE when the call raises, else rec is the
\* normalized record.
normalizeRecord(record, mappingKey) ==
  LET mapping == ActiveMapping(mappingKey)
  IN IF normalizeThrows(record)
       THEN [threw |-> TRUE, rec |-> <<>>]
       ELSE [threw |-> FALSE,
             rec |-> assignEntries(mapping, initNulls(mapping), record.entries, 1)]

\* record[field] of a normalized record (undefined reads as a falsy Null)
Field(rec, field) == IF field \in DOMAIN rec THEN rec[field] ELSE Null

\* Variant: one truthy required field is enough
isValidRecordAny(rec) ==
  \E i \in 1..Len(requiredFields) : Truthy(Field(rec, requiredFields[i]))

\* Variant: a required field the record does not have is not checked
isValidRecordSkipsAbsent(rec) ==
  \A i \in 1..Len(requiredFields) :
    requiredFields[i] \in DOMAIN rec => Truthy(rec[requiredFields[i]])

\* processFile's filter predicate:
\* config.validation.requiredFields.every(field => record[field])
isValidRecord(rec) ==
  \A i \in 1..Len(requiredFields) : Truthy(Field(rec, requiredFields[i]))

----------------------------------------------------------------------------
(* server.js: detectFileType *)

f_csv == <<"a", ".", "c", "s", "v">>
f_CSV == <<"a", ".", "C", "S", "V">>
f_xlsx == <<"a", ".", "x", "l", "s", "x">>
f_xls == <<"a", ".", "x", "l", "s">>
f_json == <<"a", ".", "j", "s", "o", "n">>
f_txt == <<"a", ".", "t", "x", "t">>
f_pdf == <<"a", ".", "p", "d", "f">>
f_noext == <<"c", "s", "v">>
f_dotfile == <<".", "c", "s", "v">>

x_csv == <<".", "c", "s", "v">>
x_xlsx == <<".", "x", "l", "s", "x">>
x_xls == <<".", "x", "l", "s">>
x_json == <<".", "j", "s", "o", "n">>
x_txt == <<".", "t", "x", "t">>

\* path.extname: from the last "." of the name to its end; "" when there is
\* no "." or the only "." is the first character
extname(filename) ==
  LET dots == {i \in 1..Len(filename) : filename[i] = "."}
  IN IF dots = {} THEN <<>>
     ELSE LET last == CHOOSE i \in dots : \A j \in dots : j <= i
          IN IF last = 1 THEN <<>> ELSE SubSeq(filename, last, Len(filename))

\* Variant: the default case of the switch treats the file as text
detectFileTypeTextFallback(filename) ==
  LET ext == toLowerCase(extname(filename))
  IN CASE ext = x_csv -> "csv"
       [] ext = x_xlsx -> "excel"
       [] ext = x_xls -> "excel"
       [] ext = x_json -> "json"
       [] OTHER -> "text"

detectFileType(filename) ==
  LET ext == toLowerCase(extname(filename))
  IN CASE ext = x_csv -> "csv"
       [] ext = x_xlsx -> "excel"
       [] ext = x_xls -> "excel"
       [] ext = x_json -> "json"
       [] ext = x_txt -> "text"
       [] OTHER -> "unknown"

----------------------------------------------------------------------------
(* db.js: records table and the statement of saveRecords *)

VarcharName == 255
VarcharAddress1 == 255
VarcharCity == 255
VarcharState == 50
VarcharZip == 20
VarcharAuthId == 100

\* A value fits a VARCHAR(n) column: NULL, or a string of at most n characters
Fits(v, n) == v.t = "null" \/ Len(v.s) <= n

\* The INSERT ... ON CONFLICT statement raises no error for this record
statementSucceeds(record) ==
  /\ Fits(Field(record, "name"), VarcharName)
  /\ Fits(Field(record, "address1"), VarcharAddress1)
  /\ Fits(Field(record, "city"), VarcharCity)
  /\ Fits(Field(record, "state"), VarcharState)
  /\ Fits(Field(record, "zip"), VarcharZip)
  /\ Fits(Field(record, "authId"), VarcharAuthId)

Row(record) ==
  [ name     |-> Field(record, "name"),
    address1 |-> Field(record, "address1"),
    city     |-> Field(record, "city"),
    state    |-> Field(record, "state"),
    zip      |-> Field(record, "zip") ]

\* Variant: on a conflict the row's columns are set from the parameters one
\* place further on (name = $2, address1 = $3, city = $4, state = $5, zip = $1)
upsertShifted(rows, record) ==
  LET key == Field(record, "authId").s
      shifted == [ name     |-> Field(record, "address1"),
                   address1 |-> Field(record, "city"),
                   city     |-> Field(record, "state"),
                   state    |-> Field(record, "zip"),
                   zip      |-> Field(record, "name") ]
  IN [k \in (DOMAIN rows) \cup {key} |->
        IF k # key THEN rows[k]
        ELSE IF key \in DOMAIN rows THEN shifted ELSE Row(record)]

\* Variant: ON CONFLICT (auth_id) DO NOTHING
upsertKeepsFirst(rows, record) ==
  LET key == Field(record, "authId").s
  IN [k \in (DOMAIN rows) \cup {key} |->
        IF k \in DOMAIN rows THEN rows[k] ELSE Row(record)]

\* INSERT ... ON CONFLICT (auth_id) DO UPDATE SET name = $1, ..., zip = $5
upsert(rows, record) ==
  LET key == Field(record, "authId").s
  IN [k \in (DOMAIN rows) \cup {key} |-> IF k = key THEN Row(record) ELSE rows[k]]

----------------------------------------------------------------------------
(* Requests and responses *)

Undefined == "<undefined>"

NoSummary == [totalRecords |-> 0, validRecords |-> 0, invalidRecords |-> 0,
              savedRecords |-> 0]
NoResponse == [status |-> 0, kind |-> "none", error |-> "", summary |-> NoSummary]
\* res.status(status).json({ error: message })
ErrorResponse(status, message) ==
  [status |-> status, kind |-> "error", error |-> message, summary |-> NoSummary]
SummaryResponse(res, count) ==
  [ status |-> 200, kind |-> "summary", error |-> "",
    summary |-> [ totalRecords   |-> res.total,
                  validRecords   |-> res.valid,
                  invalidRecords |-> res.invalid,
                  savedRecords   |-> count ] ]

NoResult == [total |-> 0, valid |-> 0, invalid |-> 0, records |-> <<>>]

\* Variant: every normalized record is kept
filterKeepsAll(recs) == recs

\* Array.prototype.filter
RECURSIVE filterValid(_)
filterValid(recs) ==
  IF recs = <<>> THEN <<>>
  ELSE IF isValidRecord(Head(recs))
         THEN <<Head(recs)>> \o filterValid(Tail(recs))
         ELSE filterValid(Tail(recs))

\* Variant: invalid is reported as the number of parsed records
processRecordsInvalidNotReduced(records, src) ==
  LET normalizedRecords == [i \in 1..Len(records) |-> normalizeRecord(records[i], src).rec]
      validRecords == filterValid(normalizedRecords)
  IN [ total   |-> Len(records),
       valid   |-> Len(validRecords),
       invalid |-> Len(records),
       records |-> validRecords ]

\* the property names of array indices
IndexKeys == <<"0", "1", "2", "3", "4", "5", "6", "7", "8", "9">>

\* Variant: records.map(normalizeRecord), which hands each record's index to
\* normalizeRecord as its mappingKey; no config has that name
processRecordsMapIndex(records, src) ==
  LET normalizedRecords == [i \in 1..Len(records) |->
                              normalizeRecord(records[i], IndexKeys[i]).rec]
      validRecords == filterValid(normalizedRecords)
  IN [ total   |-> Len(records),
       valid   |-> Len(validRecords),
       invalid |-> Len(records) - Len(validRecords),
       records |-> validRecords ]

\* processFile after the parser resolved: normalize, validate, count
processRecords(records, src) ==
  LET normalizedRecords == [i \in 1..Len(records) |-> normalizeRecord(records[i], src).rec]
      validRecords == filterValid(normalizedRecords)
  IN [ total   |-> Len(records),
       valid   |-> Len(validRecords),
       invalid |-> Len(records) - Len(validRecords),
       records |-> validRecords ]

----------------------------------------------------------------------------
(* server.js: parseJSON *)

\* A value as JSON.parse returns it: kind is its type, entries the properties
\* Object.entries enumerates, elems the elements of an array
JObject(entries) == [kind |-> "object", entries |-> entries, elems |-> <<>>]
JArray(elems) == [kind |-> "array", entries |-> <<>>, elems |-> elems]
JNull == [kind |-> "null", entries |-> <<>>, elems |-> <<>>]
JNumber == [kind |-> "number", entries |-> <<>>, elems |-> <<>>]
JBoolean == [kind |-> "boolean", entries |-> <<>>, elems |-> <<>>]
\* a string enumerates as one property per character, keyed by its index
JString(chars) ==
  [kind |-> "string",
   entries |-> [i \in 1..Len(chars) |-> Entry(<<IndexKeys[i]>>, Str(<<chars[i]>>))],
   elems |-> <<>>]

\* An element of records as normalizeRecord's Object.entries(record) sees it
asRecord(value) ==
  IF value.kind = "null" THEN RawNull ELSE RawObject(value.entries)

\* The file at filePath: readable or not, its text well-formed JSON or not,
\* and the value the text denotes
JsonFile(root) == [readable |-> TRUE, wellFormed |-> TRUE, root |-> root]
UnreadableFile == [readable |-> FALSE, wellFormed |-> FALSE, root |-> JNull]
MalformedFile == [readable |-> TRUE, wellFormed |-> FALSE, root |-> JNull]

\* Settlement of parseJSON's promise: rejected (readFile err, or JSON.parse
\* threw), or resolved with Array.isArray(jsonData) ? jsonData : [jsonData]
parseJSON(file) ==
  IF ~file.readable \/ ~file.wellFormed
    THEN [error |-> TRUE, records |-> <<>>]
    ELSE LET jsonData == file.root
         IN [error |-> FALSE,
             records |-> IF jsonData.kind = "array"
                           THEN [i \in 1..Len(jsonData.elems) |->
                                   asRecord(jsonData.elems[i])]
                           ELSE <<asRecord(jsonData)>>]

----------------------------------------------------------------------------
(* server.js: parseText *)

\* s.split(d) for a one-character separator d
RECURSIVE split(_, _)
split(s, d) ==
  LET hits == {i \in 1..Len(s) : s[i] = d}
  IN IF hits = {} THEN <<s>>
     ELSE LET first == CHOOSE i \in hits : \A j \in hits : i <= j
          IN <<SubSeq(s, 1, first - 1)>> \o split(SubSeq(s, first + 1, Len(s)), d)

\* Variant: comma unless the first line contains a tab
detectDelimiterCommaDefault(data) ==
  LET firstLine == split(data, "\n")[1]
  IN IF includes(firstLine, <<"\t">>) THEN "\t" ELSE ","

\* const firstLine = data.split('\n')[0]; let delimiter = '\t';
\* if (firstLine.includes(',') && !firstLine.includes('\t')) delimiter = ','
detectDelimiter(data) ==
  LET firstLine == split(data, "\n")[1]
  IN IF includes(firstLine, <<",">>) /\ ~includes(firstLine, <<"\t">>)
       THEN ","
       ELSE "\t"

\* values[index] ? values[index].trim() : null
cellValue(values, index) ==
  IF index <= Len(values) /\ values[index] # <<>>
    THEN Str(trim(values[index]))
    ELSE Null

s_proto == <<"_", "_", "p", "r", "o", "t", "o", "_", "_">>

\* record[header] = value on the properties set so far: an existing property
\* keeps its place and takes the new value, a new one is added at the end.
\* Assigning a string or null to "__proto__" runs Object.prototype's setter,
\* which creates no property.
setProperty(entries, key, value) ==
  IF key = s_proto THEN entries
  ELSE IF \E k \in 1..Len(entries) : entries[k].key = key
    THEN [k \in 1..Len(entries) |->
            IF entries[k].key = key THEN Entry(key, value) ELSE entries[k]]
    ELSE Append(entries, Entry(key, value))

\* headers.forEach((header, index) => { record[header] = ... }) from index on
RECURSIVE textRecord(_, _, _, _)
textRecord(entries, headers, values, index) ==
  IF index > Len(headers) THEN entries
  ELSE textRecord(setProperty(entries, headers[index], cellValue(values, index)),
                  headers, values, index + 1)

\* The file at filePath: readable or not, and its text
TextFile(data) == [readable |-> TRUE, data |-> data]
UnreadableText == [readable |-> FALSE, data |-> <<>>]

\* lines = data.trim().split('\n')
textLines(data) == split(trim(data), "\n")

\* headers = lines[0].split(delimiter).map(h => h.trim())
textHeaders(data) ==
  LET cells == split(textLines(data)[1], detectDelimiter(data))
  IN [i \in 1..Len(cells) |-> trim(cells[i])]

\* Settlement of parseText's promise: rejected (readFile err) or resolved with
\* one record per line after the header line
parseText(file) ==
  IF ~file.readable
    THEN [error |-> TRUE, records |-> <<>>]
    ELSE LET delimiter == detectDelimiter(file.data)
             lines == textLines(file.data)
             headers == textHeaders(file.data)
         IN [error |-> FALSE,
             records |-> [i \in 1..(Len(lines) - 1) |->
                            RawObject(textRecord(<<>>, headers,
                                                 split(lines[i + 1], delimiter), 1))]]

----------------------------------------------------------------------------
(* Inputs *)

v_Al == <<"A", "l">>
v_NY == <<"N", "Y">>
v_12345 == <<"1", "2", "3", "4", "5">>
v_A1 == <<"A", "1">>
v_A2 == <<"A", "2">>
\* a string one character longer than the auth_id column admits
v_LongId == [i \in 1..(VarcharAuthId + 1) |-> "x"]

r_ok1 == RawObject(<<Entry(s_full_name, Str(v_Al)), Entry(s_auth_id, Str(v_A1))>>)
r_ok2 == RawObject(<<Entry(s_full_name, Str(v_Al)), Entry(s_state, Str(v_NY)),
                     Entry(s_auth_id, Str(v_A2))>>)
r_long == RawObject(<<Entry(s_full_name, Str(v_Al)), Entry(s_auth_id, Str(v_LongId))>>)
r_noauth == RawObject(<<Entry(s_full_name, Str(v_Al)), Entry(s_state, Str(v_NY))>>)
\* the auth_id of r_ok1 with another state
r_dup == RawObject(<<Entry(s_full_name, Str(v_Al)), Entry(s_state, Str(v_NY)),
                     Entry(s_auth_id, Str(v_A1))>>)

\* Rows a CSV, spreadsheet or text file can hold; a JSON array can also hold null
SampleRows == {r_ok1, r_ok2, r_long, r_noauth}
SampleJsonElements == {JObject(r.entries) : r \in SampleRows} \cup {JNull}

SeqsUpTo(S, n) == UNION {[1..k -> S] : k \in 0..n}

Filenames == {f_csv, f_CSV, f_xlsx, f_xls, f_json, f_txt, f_pdf, f_noext, f_dotfile}

\* .json files: malformed text, an array of the sample elements, one object
SampleJsonFiles ==
  {MalformedFile}
    \cup {JsonFile(JArray(es)) : es \in SeqsUpTo(SampleJsonElements, MaxRecords)}
    \cup {JsonFile(JObject(r.entries)) : r \in SampleRows}

\* What the parser can yield for an uploaded file of the given type: an error
\* (the promise is rejected) or the parsed records
Contents(type) ==
  IF type = "json"
    THEN {parseJSON(file) : file \in SampleJsonFiles}
    ELSE {[error |-> TRUE, records |-> <<>>]} \cup
         {[error |-> FALSE, records |-> rs] : rs \in SeqsUpTo(SampleRows, MaxRecords)}

\* req.body.source: absent, or the name test_api.sh registers
Sources == {Undefined, "vendor2"}

----------------------------------------------------------------------------
(* POST /api/upload *)

\* Handler entry up to the first await of processFile (the parser's promise)
Upload(hasFile, filename, src) ==
  /\ pc = "idle"
  /\ IF ~hasFile
       THEN /\ response' = ErrorResponse(400, "No file uploaded")
            /\ pc' = "responded"
            /\ UNCHANGED <<fileType, originalname, source, tmpFile, stages>>
       ELSE /\ tmpFile' = TRUE
            /\ originalname' = filename
            /\ IF detectFileType(filename) = "unknown"
                 THEN /\ response' = ErrorResponse(500, "Unsupported file type")
                      /\ pc' = "responded"
                      /\ stages' = <<"Detect">>
                      /\ UNCHANGED <<fileType, source>>
                 ELSE /\ fileType' = detectFileType(filename)
                      /\ source' = src
                      /\ pc' = "parse"
                      /\ stages' = <<"Detect", "Parse">>
                      /\ UNCHANGED response
  /\ UNCHANGED <<parsed, result, regVars, dbVars, normVars, jsonVars, sideVars, concVars>>

\* Variant: the parser's error handler resolves with the rows read so far
parserNeverRejects(cont) == FALSE

\* .on('error', reject), reject(err), reject(error): await parse...(filePath)
\* throws inside processFile and the handler's catch answers
parserRejected(cont) == cont.error

\* Variant: db.saveRecords is not awaited, the summary is sent at once
respondBeforeSave(resp, res) == SummaryResponse(res, 0)

\* const saveResult = await db.saveRecords(result.records): nothing is sent
\* until saveRecords has returned
respondAfterSave(resp, res) == resp

\* The parser's promise settles with cont; on success the rest of processFile
\* runs and the handler calls db.saveRecords, which awaits pool.connect()
ParseDone(cont) ==
  /\ pc = "parse"
  /\ parsed' = IF cont.error THEN "rejected" ELSE "resolved"
  /\ LET src == IF source = Undefined THEN "default" ELSE source
     IN IF parserRejected(cont)
             \/ \E i \in 1..Len(cont.records) : normalizeThrows(cont.records[i])
          THEN /\ response' = ErrorResponse(500, IF cont.error THEN "parse error"
                                                                  ELSE "TypeError")
               /\ pc' = "responded"
               /\ stages' = IF cont.error THEN stages ELSE Append(stages, "Map")
               /\ UNCHANGED result
          ELSE /\ result' = processRecords(cont.records, src)
               /\ pc' = "connect"
               /\ stages' = stages \o <<"Map", "Store">>
               /\ response' = respondAfterSave(response, result')
  /\ fileType' = "none"
  /\ originalname' = <<>>
  /\ source' = Undefined
  /\ UNCHANGED <<tmpFile, regVars, dbVars, normVars, jsonVars, sideVars, concVars>>

\* const client = await pool.connect(); on success client.query('BEGIN') is sent
Connect(ok) ==
  /\ pc = "connect"
  /\ IF ok
       THEN /\ pc' = "begin"
            /\ savedCount' = 0
            /\ UNCHANGED response
       ELSE /\ response' = ErrorResponse(500, "connect failed")
            /\ pc' = "responded"
            /\ UNCHANGED savedCount
  /\ UNCHANGED <<fileType, originalname, parsed, source, tmpFile, result, stages, regVars, normVars, jsonVars, sideVars, concVars,
                 table, txTable, txAborted, idx, recordErrors, applied, persisted>>

\* BEGIN returns; on failure the outer catch sends ROLLBACK and rethrows
Begin(ok) ==
  /\ pc = "begin"
  /\ IF ok
       THEN /\ txTable' = table
            /\ txAborted' = FALSE
            /\ idx' = 1
            /\ pc' = IF Len(result.records) = 0 THEN "commit" ELSE "query"
            /\ UNCHANGED response
       ELSE /\ response' = ErrorResponse(500, "BEGIN failed")
            /\ pc' = "responded"
            /\ UNCHANGED <<txTable, txAborted, idx>>
  /\ UNCHANGED <<fileType, originalname, parsed, source, tmpFile, result, stages, regVars, normVars, jsonVars, sideVars, concVars,
                 table, savedCount, recordErrors, applied, persisted>>

\* Variant: a returned row is not counted
countSavedNever(count) == count

\* if (result.rows.length > 0) savedCount++ : the upsert returns one row
countSaved(count) == count + 1

\* Variant: the inner catch rethrows, the handler answers 500
rethrowRecordError(resp) == ErrorResponse(500, "record error")

\* catch (recordError) { console.error(...) }: the error is logged, nothing is
\* rethrown and no response is sent
onRecordError(resp) == resp

\* Variant: the loop is left at the first failed record
breakAfterRecordError(i, n) == n + 1

\* "Continue with other records if one fails": the loop goes on to the next
\* record (i is the failed record's index, n the batch length)
indexAfterRecordError(i, n) == i + 1

\* One iteration of the for loop: the upsert of records[idx] returns or is
\* rejected.  PostgreSQL rejects every statement of a transaction in which an
\* earlier statement failed; the inner catch logs the error and continues.
Query ==
  /\ pc = "query"
  /\ LET record == result.records[idx]
         n == Len(result.records)
     IN IF ~txAborted /\ statementSucceeds(record)
          THEN /\ txTable' = upsert(txTable, record)
               /\ savedCount' = countSaved(savedCount)
               /\ applied' = applied \cup {idx}
               /\ idx' = idx + 1
               /\ UNCHANGED <<txAborted, recordErrors, response>>
          ELSE /\ txAborted' = TRUE
               /\ recordErrors' = recordErrors + 1
               /\ response' = onRecordError(response)
               /\ idx' = indexAfterRecordError(idx, n)
               /\ UNCHANGED <<txTable, savedCount, applied>>
  /\ pc' = IF response'.kind = "error" THEN "responded"
           ELSE IF idx' > Len(result.records) THEN "commit" ELSE "query"
  /\ UNCHANGED <<fileType, originalname, parsed, source, tmpFile, result, stages,
                 regVars, normVars, jsonVars, sideVars, concVars, table, persisted>>

\* COMMIT returns (a failed transaction is rolled back by it), the client is
\* released, the handler unlinks the temporary file and responds.  A rejected
\* COMMIT or a throwing unlinkSync ends in the handler's catch.
Commit(ok, unlinkOk) ==
  /\ pc = "commit"
  /\ IF ok
       THEN /\ table' = IF txAborted THEN table ELSE txTable
            /\ persisted' = IF txAborted THEN {} ELSE applied
            /\ IF unlinkOk
                 THEN /\ tmpFile' = FALSE
                      /\ response' = SummaryResponse(result, savedCount)
                      /\ stages' = Append(stages, "Summarize")
                 ELSE /\ response' = ErrorResponse(500, "unlink failed")
                      /\ UNCHANGED <<tmpFile, stages>>
       ELSE /\ response' = ErrorResponse(500, "COMMIT failed")
            /\ UNCHANGED <<table, persisted, tmpFile, stages>>
  /\ pc' = "responded"
  /\ txTable' = <<>>
  /\ txAborted' = FALSE
  /\ UNCHANGED <<fileType, originalname, parsed, source, result, regVars, normVars, jsonVars, sideVars, concVars,
                 idx, savedCount, recordErrors, applied>>

\* The client sends its next request: the finished request's locals are gone
NextRequest ==
  /\ pc = "responded"
  /\ pc' = "idle"
  /\ fileType' = "none"
  /\ originalname' = <<>>
  /\ parsed' = "none"
  /\ source' = Undefined
  /\ tmpFile' = FALSE
  /\ result' = NoResult
  /\ response' = NoResponse
  /\ stages' = <<>>
  /\ txTable' = <<>>
  /\ txAborted' = FALSE
  /\ idx' = 0
  /\ savedCount' = 0
  /\ recordErrors' = 0
  /\ applied' = {}
  /\ persisted' = {}
  /\ UNCHANGED <<table, regVars, normVars, jsonVars, sideVars, concVars>>

----------------------------------------------------------------------------
(* POST /api/mappings, GET /api/mappings *)

\* test_api.sh: the vendor2 configuration
Vendor2Mapping ==
  [ name     |-> <<s_client_name, s_customer>>,
    address1 |-> <<s_billing_address, s_primary_address>>,
    city     |-> <<s_billing_city>>,
    state    |-> <<s_billing_state>>,
    zip      |-> <<s_billing_zip>>,
    authId   |-> <<s_client_code>> ]

\* a configuration whose target for the identifier is auth_id, not authId
SnakeCaseMapping ==
  [ name    |-> <<s_full_name>>,
    state   |-> <<s_state>>,
    auth_id |-> <<s_auth_id>> ]

\* a configuration whose required field name has no alias
NoNameAliasMapping ==
  [ name     |-> <<>>,
    address1 |-> <<s_billing_address>>,
    city     |-> <<s_billing_city>>,
    state    |-> <<s_billing_state>>,
    zip      |-> <<s_billing_zip>>,
    authId   |-> <<s_client_code>> ]

\* Variant: an existing config is updated field by field and the update
\* stops after the required fields
setMappingFieldwise(registry, name, mappings) ==
  [n \in (DOMAIN registry) \cup {name} |->
     IF n # name THEN registry[n]
     ELSE IF name \notin DOMAIN registry THEN mappings
     ELSE [targetField \in DOMAIN mappings |->
             IF targetField \in {"name", "authId"} \/ targetField \notin DOMAIN registry[name]
               THEN mappings[targetField]
               ELSE registry[name][targetField]]]

\* Variant: the aliases of a re-registered name are appended to the old ones
setMappingAppending(registry, name, mappings) ==
  [n \in (DOMAIN registry) \cup {name} |->
     IF n # name THEN registry[n]
     ELSE IF name \notin DOMAIN registry THEN mappings
     ELSE [targetField \in DOMAIN mappings |->
             IF targetField \in DOMAIN registry[name]
               THEN registry[name][targetField] \o mappings[targetField]
               ELSE mappings[targetField]]]

\* fieldMappings[name] = mappings: one assignment of the whole config
setMapping(registry, name, mappings) ==
  [n \in (DOMAIN registry) \cup {name} |->
     IF n = name THEN mappings ELSE registry[n]]

\* name = "" stands for a missing or empty name, hasMappings = FALSE for a
\* missing mappings property
RegisterMapping(name, hasMappings, mappings) ==
  /\ IF name = "" \/ ~hasMappings
       THEN /\ mappingResponse' = 400
            /\ UNCHANGED fieldMappings
       ELSE /\ fieldMappings' = setMapping(fieldMappings, name, mappings)
            /\ mappingResponse' = 201
  /\ UNCHANGED <<listing, runVars, dbVars, normVars, jsonVars, sideVars, concVars>>

\* res.json(fieldMappings): the object's own enumerable properties.  The
\* assignment fieldMappings["__proto__"] = mappings sets the object's prototype
\* and creates no property; the registry keeps it under "__proto__", where a
\* read of fieldMappings["__proto__"] finds it.
listedMappings(registry) ==
  [n \in (DOMAIN registry) \ {"__proto__"} |-> registry[n]]

ListMappings ==
  /\ listing' = listedMappings(fieldMappings)
  /\ UNCHANGED <<fieldMappings, mappingResponse, runVars, dbVars, normVars, jsonVars, sideVars, concVars>>

----------------------------------------------------------------------------
(* Two uploads in flight at once.  Node runs each handler to its next await
   without interruption; the handlers share fieldMappings and the records
   table and nothing else. *)

Runs == {1, 2}

NoFile == [name |-> <<>>, content |-> [error |-> FALSE, records |-> <<>>]]

\* Variant: the request's file is kept in a variable shared by the handlers
sharedFile(files, r) == files[1]

\* req.file of request r
requestFile(files, r) == files[r]

\* Handler entry up to the first await of processFile
CUpload(r, file, src) ==
  /\ cPc[r] = "idle"
  /\ cFile' = [cFile EXCEPT ![r] = file]
  /\ IF detectFileType(file.name) = "unknown"
       THEN /\ cResponse' = [cResponse EXCEPT
                               ![r] = ErrorResponse(500, "Unsupported file type")]
            /\ cPc' = [cPc EXCEPT ![r] = "responded"]
            /\ UNCHANGED cSource
       ELSE /\ cSource' = [cSource EXCEPT ![r] = src]
            /\ cPc' = [cPc EXCEPT ![r] = "parse"]
            /\ UNCHANGED cResponse
  /\ cSubmitted' = [cSubmitted EXCEPT ![r] =
         ActiveMapping(IF src = Undefined THEN "default" ELSE src)]
  /\ UNCHANGED <<cRead, cResult, regVars, runVars, dbVars, normVars, jsonVars, sideVars>>

\* The parser's promise settles; normalization and validation of all records
\* run in the same turn, so every record is normalized with the same config
CParseDone(r) ==
  /\ cPc[r] = "parse"
  /\ LET cont == requestFile(cFile, r).content
         src == IF cSource[r] = Undefined THEN "default" ELSE cSource[r]
     IN IF parserRejected(cont)
             \/ \E i \in 1..Len(cont.records) : normalizeThrows(cont.records[i])
          THEN /\ cResponse' = [cResponse EXCEPT ![r] =
                      ErrorResponse(500, IF cont.error THEN "parse error"
                                                       ELSE "TypeError")]
               /\ cPc' = [cPc EXCEPT ![r] = "responded"]
               /\ UNCHANGED <<cRead, cResult>>
          ELSE /\ cResult' = [cResult EXCEPT ![r] = processRecords(cont.records, src)]
               /\ cRead' = [cRead EXCEPT ![r] = ActiveMapping(src)]
               /\ cPc' = [cPc EXCEPT ![r] = "store"]
               /\ UNCHANGED cResponse
  /\ cSource' = [cSource EXCEPT ![r] = Undefined]
  /\ UNCHANGED <<cFile, cSubmitted, regVars, runVars, dbVars, normVars, jsonVars, sideVars>>

\* The statements of saveRecords' loop inside its transaction
RECURSIVE txLoop(_, _, _)
txLoop(tx, records, i) ==
  IF i > Len(records) THEN tx
  ELSE txLoop(IF ~tx.aborted /\ statementSucceeds(records[i])
                THEN [rows |-> upsert(tx.rows, records[i]), aborted |-> FALSE,
                      count |-> countSaved(tx.count)]
                ELSE [rows |-> tx.rows, aborted |-> TRUE, count |-> tx.count],
              records, i + 1)

\* db.saveRecords returns or throws and the handler responds.  The statements
\* run in one transaction, whose effect on the table appears at COMMIT.
CStore(r, ok) ==
  /\ cPc[r] = "store"
  /\ LET tx == txLoop([rows |-> table, aborted |-> FALSE, count |-> 0],
                      cResult[r].records, 1)
     IN IF ok
          THEN /\ table' = IF tx.aborted THEN table ELSE tx.rows
               /\ cResponse' = [cResponse EXCEPT
                                  ![r] = SummaryResponse(cResult[r], tx.count)]
          ELSE /\ cResponse' = [cResponse EXCEPT
                                  ![r] = ErrorResponse(500, "store failed")]
               /\ UNCHANGED table
  /\ cPc' = [cPc EXCEPT ![r] = "responded"]
  /\ UNCHANGED <<cFile, cSource, cRead, cResult, cSubmitted, regVars, runVars, normVars, jsonVars, sideVars,
                 txTable, txAborted, idx, savedCount, recordErrors, applied, persisted>>

\* The client of request r sends its next request
CNextRequest(r) ==
  /\ cPc[r] = "responded"
  /\ cPc' = [cPc EXCEPT ![r] = "idle"]
  /\ cFile' = [cFile EXCEPT ![r] = NoFile]
  /\ cRead' = [cRead EXCEPT ![r] = <<>>]
  /\ cSubmitted' = [cSubmitted EXCEPT ![r] = <<>>]
  /\ cResult' = [cResult EXCEPT ![r] = NoResult]
  /\ cResponse' = [cResponse EXCEPT ![r] = NoResponse]
  /\ UNCHANGED <<cSource, regVars, runVars, dbVars, normVars, jsonVars, sideVars>>

----------------------------------------------------------------------------
(* normalizeRecord and the validation filter applied to one record *)

Normalize ==
  /\ nStage = "input"
  /\ nOut' = normalizeRecord(nRecord, nKey)
  /\ nStage' = IF nOut'.threw THEN "threw" ELSE "normalized"
  /\ UNCHANGED <<nRecord, nKey, nValid, regVars, runVars, dbVars, jsonVars, sideVars, concVars>>

Validate ==
  /\ nStage = "normalized"
  /\ nValid' = isValidRecord(nOut.rec)
  /\ nStage' = "validated"
  /\ UNCHANGED <<nRecord, nKey, nOut, regVars, runVars, dbVars, jsonVars, sideVars, concVars>>

----------------------------------------------------------------------------
(* parseJSON applied to one file *)

ParseJson ==
  /\ jStage = "input"
  /\ jOut' = parseJSON(jDoc)
  /\ jStage' = "settled"
  /\ UNCHANGED <<jDoc, regVars, runVars, dbVars, normVars, concVars, sideVars>>

----------------------------------------------------------------------------
(* parseText applied to one file *)

ParseText ==
  /\ tStage = "input"
  /\ tDelimiter' = IF tData.readable THEN detectDelimiter(tData.data) ELSE ""
  /\ tOut' = parseText(tData)
  /\ tStage' = "settled"
  /\ UNCHANGED <<tData, regVars, runVars, dbVars, normVars, jsonVars, concVars,
                 flowVars, chainVars>>

----------------------------------------------------------------------------
(* statemachine/file_processing.asl.json: the Step Functions workflow.  A Task
   state returns (its result is stored at ResultPath) or fails; no state has
   Retry or Catch, so a failed task fails the execution. *)

NoWorkflowData ==
  [ validation    |-> [present |-> FALSE, isValid |-> FALSE],
    fileType      |-> "none",
    parsedData    |-> [present |-> FALSE, count |-> 0],
    mappedData    |-> [present |-> FALSE, valid |-> 0],
    storageResult |-> [present |-> FALSE, count |-> 0] ]

\* the execution moves to state next
enter(next) ==
  /\ wState' = next
  /\ wTrail' = Append(wTrail, next)

\* a task without Retry and Catch raised an error
failExecution ==
  /\ wState' = "Failed"
  /\ UNCHANGED <<wData, wTrail>>

\* "End": true
endExecution ==
  /\ wState' = "Succeeded"
  /\ UNCHANGED <<wData, wTrail>>

\* FileValid?: $.validation.isValid BooleanEquals true, Default otherwise
fileValidNext(data) ==
  IF data.validation.isValid = TRUE THEN "DetermineFileType"
                                    ELSE "ReportValidationFailure"

\* Variant: NumericGreaterThanEquals 0
anyValidRecordsNextGte(data) ==
  IF data.mappedData.valid >= 0 THEN "StoreData" ELSE "ReportNoValidRecords"

\* AnyValidRecords?: $.mappedData.valid NumericGreaterThan 0, Default otherwise
anyValidRecordsNext(data) ==
  IF data.mappedData.valid > 0 THEN "StoreData" ELSE "ReportNoValidRecords"

ValidateFile(ok, isValid) ==
  /\ wState = "ValidateFile"
  /\ IF ok
       THEN /\ wData' = [wData EXCEPT !.validation =
                                        [present |-> TRUE, isValid |-> isValid]]
            /\ enter("FileValid?")
       ELSE failExecution
  /\ UNCHANGED <<regVars, runVars, dbVars, normVars, jsonVars, concVars,
                 textVars, chainVars>>

FileValidChoice ==
  /\ wState = "FileValid?"
  /\ enter(fileValidNext(wData))
  /\ UNCHANGED <<wData, regVars, runVars, dbVars, normVars, jsonVars, concVars,
                 textVars, chainVars>>

DetermineFileType(ok, type) ==
  /\ wState = "DetermineFileType"
  /\ IF ok
       THEN /\ wData' = [wData EXCEPT !.fileType = type]
            /\ enter("ParseFile")
       ELSE failExecution
  /\ UNCHANGED <<regVars, runVars, dbVars, normVars, jsonVars, concVars,
                 textVars, chainVars>>

ParseFile(ok, count) ==
  /\ wState = "ParseFile"
  /\ IF ok
       THEN /\ wData' = [wData EXCEPT !.parsedData =
                                        [present |-> TRUE, count |-> count]]
            /\ enter("MapFields")
       ELSE failExecution
  /\ UNCHANGED <<regVars, runVars, dbVars, normVars, jsonVars, concVars,
                 textVars, chainVars>>

MapFields(ok, valid) ==
  /\ wState = "MapFields"
  /\ valid <= wData.parsedData.count
  /\ IF ok
       THEN /\ wData' = [wData EXCEPT !.mappedData =
                                        [present |-> TRUE, valid |-> valid]]
            /\ enter("AnyValidRecords?")
       ELSE failExecution
  /\ UNCHANGED <<regVars, runVars, dbVars, normVars, jsonVars, concVars,
                 textVars, chainVars>>

AnyValidRecordsChoice ==
  /\ wState = "AnyValidRecords?"
  /\ enter(anyValidRecordsNext(wData))
  /\ UNCHANGED <<wData, regVars, runVars, dbVars, normVars, jsonVars, concVars,
                 textVars, chainVars>>

StoreData(ok, count) ==
  /\ wState = "StoreData"
  /\ count <= wData.mappedData.valid
  /\ IF ok
       THEN /\ wData' = [wData EXCEPT !.storageResult =
                                        [present |-> TRUE, count |-> count]]
            /\ enter("ReportSuccess")
       ELSE failExecution
  /\ UNCHANGED <<regVars, runVars, dbVars, normVars, jsonVars, concVars,
                 textVars, chainVars>>

\* ReportSuccess, ReportValidationFailure, ReportNoValidRecords: "End": true
ReportTask(ok) ==
  /\ wState \in {"ReportSuccess", "ReportValidationFailure", "ReportNoValidRecords"}
  /\ IF ok THEN endExecution ELSE failExecution
  /\ UNCHANGED <<regVars, runVars, dbVars, normVars, jsonVars, concVars,
                 textVars, chainVars>>

----------------------------------------------------------------------------
(* The toy blockchain.  SHA-256 is taken as injective: the digest of a
   message is the message itself behind a marker. *)

sha256(message) == <<"#">> \o message

\* sha256(this.index + this.timestamp + this.data + this.previousHash)
calculateHash(block) ==
  sha256(block.index \o block.timestamp \o block.data \o block.previousHash)

\* new Block(index, timestamp, data, previousHash)
Block(index, timestamp, data, previousHash) ==
  LET fields == [index |-> index, timestamp |-> timestamp, data |-> data,
                 previousHash |-> previousHash, hash |-> <<>>]
  IN [fields EXCEPT !.hash = calculateHash(fields)]

t_now == <<"T">>
d_genesis == <<"G">>

createGenesisBlock == Block(<<"0">>, t_now, d_genesis, <<"0">>)

getLatestBlock(blocks) == blocks[Len(blocks)]

\* the value isChainValid() returns; blocks[1] is the genesis block
isChainValid(blocks) ==
  \A i \in 2..Len(blocks) :
    /\ blocks[i].hash = calculateHash(blocks[i])
    /\ blocks[i].previousHash = blocks[i - 1].hash

\* blockchain.addBlock(new Block(index, timestamp, data))
AddBlock(index, data) ==
  /\ chain # <<>>
  /\ LET created == Block(index, t_now, data, <<>>)
         linked == [created EXCEPT !.previousHash = getLatestBlock(chain).hash]
         newBlock == [linked EXCEPT !.hash = calculateHash(linked)]
     IN chain' = Append(chain, newBlock)
  /\ chainValid' = "none"
  /\ UNCHANGED <<tampered, regVars, runVars, dbVars, normVars, jsonVars, concVars,
                 textVars, flowVars>>

\* chain[i].data = data, the hash is left as it was
Tamper(i, data) ==
  /\ tampered = 0
  /\ i \in 1..Len(chain)
  /\ data # chain[i].data
  /\ chain' = [chain EXCEPT ![i].data = data]
  /\ tampered' = i
  /\ chainValid' = "none"
  /\ UNCHANGED <<regVars, runVars, dbVars, normVars, jsonVars, concVars,
                 textVars, flowVars>>

CheckChain ==
  /\ chain # <<>>
  /\ chainValid = "none"
  /\ chainValid' = IF isChainValid(chain) THEN "true" ELSE "false"
  /\ UNCHANGED <<chain, tampered, regVars, runVars, dbVars, normVars, jsonVars,
                 concVars, textVars, flowVars>>

----------------------------------------------------------------------------
(* Specifications *)

InitRegistry ==
  /\ fieldMappings = InitialFieldMappings
  /\ mappingResponse = 0
  /\ listing = <<>>

InitRun ==
  /\ pc = "idle"
  /\ fileType = "none"
  /\ originalname = <<>>
  /\ parsed = "none"
  /\ source = Undefined
  /\ tmpFile = FALSE
  /\ result = NoResult
  /\ response = NoResponse
  /\ stages = <<>>

InitDb ==
  /\ table = <<>>
  /\ txTable = <<>>
  /\ txAborted = FALSE
  /\ idx = 0
  /\ savedCount = 0
  /\ recordErrors = 0
  /\ applied = {}
  /\ persisted = {}

NoOutput == [threw |-> FALSE, rec |-> <<>>]

InitNormIdle ==
  /\ nRecord = RawNull
  /\ nKey = "default"
  /\ nOut = NoOutput
  /\ nValid = FALSE
  /\ nStage = "off"

InitJsonIdle ==
  /\ jDoc = MalformedFile
  /\ jOut = [error |-> FALSE, records |-> <<>>]
  /\ jStage = "off"

InitTextIdle ==
  /\ tData = UnreadableText
  /\ tDelimiter = ""
  /\ tOut = [error |-> FALSE, records |-> <<>>]
  /\ tStage = "off"

InitFlowIdle ==
  /\ wState = "off"
  /\ wData = NoWorkflowData
  /\ wTrail = <<>>

InitChainIdle ==
  /\ chain = <<>>
  /\ chainValid = "none"
  /\ tampered = 0

InitSideIdle == InitTextIdle /\ InitFlowIdle /\ InitChainIdle

InitConc ==
  /\ cPc = [r \in Runs |-> "idle"]
  /\ cFile = [r \in Runs |-> NoFile]
  /\ cSource = [r \in Runs |-> Undefined]
  /\ cRead = [r \in Runs |-> <<>>]
  /\ cSubmitted = [r \in Runs |-> <<>>]
  /\ cResult = [r \in Runs |-> NoResult]
  /\ cResponse = [r \in Runs |-> NoResponse]

\* The server after start-up
Init ==
  /\ InitRegistry /\ InitRun /\ InitDb /\ InitNormIdle /\ InitJsonIdle /\ InitConc
  /\ InitSideIdle

Next ==
  \/ \E hasFile \in BOOLEAN, filename \in Filenames, src \in Sources :
       Upload(hasFile, filename, src)
  \/ \E cont \in Contents(fileType) : ParseDone(cont)
  \/ \E ok \in BOOLEAN : Connect(ok)
  \/ \E ok \in BOOLEAN : Begin(ok)
  \/ Query
  \/ \E ok \in BOOLEAN, unlinkOk \in BOOLEAN : Commit(ok, unlinkOk)
  \/ NextRequest
  \/ RegisterMapping("vendor2", TRUE, Vendor2Mapping)

Spec == Init /\ [][Next]_vars

\* The mapping endpoints alone
RegNames == {"", "default", "vendor2", "vendor3"}
RegConfigs == {DefaultMapping, Vendor2Mapping, NoNameAliasMapping}

NextReg ==
  \/ \E name \in RegNames, hasMappings \in BOOLEAN, m \in RegConfigs :
       RegisterMapping(name, hasMappings, m)
  \/ ListMappings

SpecReg == Init /\ [][NextReg]_vars

\* The mapping endpoints with the name "__proto__" among the names
ListNames == {"", "vendor2", "__proto__"}

NextList ==
  \/ \E name \in ListNames, hasMappings \in BOOLEAN, m \in RegConfigs :
       RegisterMapping(name, hasMappings, m)
  \/ ListMappings

SpecList == Init /\ [][NextList]_vars

\* normalizeRecord and the validation filter on bounded inputs
\* column names of a vendor1-style file and of a default-style file
Vendor1Keys == {s_customer, s_customer_city, s_customer_id}
DefaultKeys == {s_name, s_customer_id, s_ZIP_padded, s_state}
NormValues == {Null, Str(s_empty), Str(v_Al), Str(v_12345)}
NormEntries(keys) == {Entry(k, v) : k \in keys, v \in NormValues}

\* an object has each key once
DistinctKeys(entries) ==
  \A i, j \in 1..Len(entries) : i # j => entries[i].key # entries[j].key

ObjectsOver(keys) ==
  {RawObject(es) :
     es \in {e \in SeqsUpTo(NormEntries(keys), MaxKeys) : DistinctKeys(e)}}

NormRecords == {RawNull} \cup ObjectsOver(Vendor1Keys) \cup ObjectsOver(DefaultKeys)

\* registered names, a name nobody registered, a name Object.prototype has
NormMappingKeys == {"default", "vendor1", "vendor9", "constructor"}

InitNorm ==
  /\ InitRun /\ InitDb /\ InitJsonIdle /\ InitConc /\ InitSideIdle
  /\ mappingResponse = 0
  /\ listing = <<>>
  /\ fieldMappings = InitialFieldMappings
  /\ nRecord \in NormRecords
  /\ nKey \in NormMappingKeys
  /\ nOut = NoOutput
  /\ nValid = FALSE
  /\ nStage = "input"

NextNorm == Normalize \/ Validate

SpecNorm == InitNorm /\ [][NextNorm]_vars

\* parseJSON on bounded files: every root shape, arrays of objects, null and
\* numbers
JsonElements == {JObject(r_ok1.entries), JObject(r_noauth.entries), JNull, JNumber}
JsonRoots ==
  {JNull, JNumber, JBoolean, JString(<<"h", "i">>),
   JObject(r_ok1.entries), JObject(r_noauth.entries)}
    \cup {JArray(es) : es \in SeqsUpTo(JsonElements, MaxRecords)}
JsonFiles == {UnreadableFile, MalformedFile} \cup {JsonFile(root) : root \in JsonRoots}

InitJson ==
  /\ InitRegistry /\ InitRun /\ InitDb /\ InitNormIdle /\ InitConc /\ InitSideIdle
  /\ jDoc \in JsonFiles
  /\ jOut = [error |-> FALSE, records |-> <<>>]
  /\ jStage = "input"

NextJson == ParseJson

SpecJson == InitJson /\ [][NextJson]_vars

\* parseText on every text of up to MaxText characters over TextChars, and on
\* a few longer samples with padded cells
MaxText == 5
TextChars == {"a", "b", ",", "\t", "\n"}
TextSamples ==
  {<<" ", "a", " ", ",", "b", "\n", "a", " ", ",", " ">>,
   <<"a", ",", "b", "\n", " ", "\n", "b", ",", "a", ",", "a", "\n">>,
   <<"a", "\t", "b", ",", "\n", "a", ",", "\t", " ", "b">>,
   s_proto \o <<",", "a", "\n", "b", ",", "a">>}
TextFiles ==
  {UnreadableText} \cup {TextFile(d) : d \in SeqsUpTo(TextChars, MaxText) \cup TextSamples}

InitBase == InitRegistry /\ InitRun /\ InitDb /\ InitNormIdle /\ InitJsonIdle /\ InitConc

InitText ==
  /\ InitBase /\ InitFlowIdle /\ InitChainIdle
  /\ tData \in TextFiles
  /\ tDelimiter = ""
  /\ tOut = [error |-> FALSE, records |-> <<>>]
  /\ tStage = "input"

NextText == ParseText

SpecText == InitText /\ [][NextText]_vars

\* One execution of the workflow
WorkflowFileTypes == {"csv", "excel", "json", "text"}

InitFlow ==
  /\ InitBase /\ InitTextIdle /\ InitChainIdle
  /\ wState = "ValidateFile"
  /\ wData = NoWorkflowData
  /\ wTrail = <<"ValidateFile">>

NextFlow ==
  \/ \E ok \in BOOLEAN, isValid \in BOOLEAN : ValidateFile(ok, isValid)
  \/ FileValidChoice
  \/ \E ok \in BOOLEAN, type \in WorkflowFileTypes : DetermineFileType(ok, type)
  \/ \E ok \in BOOLEAN, count \in 0..MaxRecords : ParseFile(ok, count)
  \/ \E ok \in BOOLEAN, valid \in 0..MaxRecords : MapFields(ok, valid)
  \/ AnyValidRecordsChoice
  \/ \E ok \in BOOLEAN, count \in 0..MaxRecords : StoreData(ok, count)
  \/ \E ok \in BOOLEAN : ReportTask(ok)

SpecFlow == InitFlow /\ [][NextFlow]_vars

\* The blockchain: blocks added, one block's data modified, the chain checked
MaxBlocks == 3
BlockData == {<<"a">>, <<"b">>}

InitChain ==
  /\ InitBase /\ InitTextIdle /\ InitFlowIdle
  /\ chain = <<createGenesisBlock>>
  /\ chainValid = "none"
  /\ tampered = 0

NextChain ==
  \/ \E data \in BlockData :
       Len(chain) <= MaxBlocks /\ AddBlock(<<IndexKeys[Len(chain) + 1]>>, data)
  \/ \E i \in 1..(MaxBlocks + 1), data \in BlockData \cup {d_genesis} : Tamper(i, data)
  \/ CheckChain

SpecChain == InitChain /\ [][NextChain]_vars

\* Two concurrent uploads and re-registration of vendor2
ConcFilenames == {f_csv, f_pdf}
ConcContents ==
  {[error |-> TRUE, records |-> <<>>],
   [error |-> FALSE, records |-> <<r_ok1>>],
   [error |-> FALSE, records |-> <<r_ok1, r_noauth>>]}
ConcFiles == {[name |-> n, content |-> c] : n \in ConcFilenames, c \in ConcContents}
ConcConfigs == {Vendor2Mapping, DefaultMapping}

NextConc ==
  \/ \E r \in Runs, file \in ConcFiles, src \in Sources : CUpload(r, file, src)
  \/ \E r \in Runs : CParseDone(r)
  \/ \E r \in Runs, ok \in BOOLEAN : CStore(r, ok)
  \/ \E r \in Runs : CNextRequest(r)
  \/ \E m \in ConcConfigs : RegisterMapping("vendor2", TRUE, m)

SpecConc == Init /\ [][NextConc]_vars

\* Two concurrent uploads of batches that repeat an auth_id, and registration
\* of vendor2 with a config whose target fields are not the required ones
StoreContents ==
  {[error |-> FALSE, records |-> <<r_ok1, r_dup>>],
   [error |-> FALSE, records |-> <<r_dup, r_ok2>>],
   [error |-> FALSE, records |-> <<r_ok2>>]}
StoreFiles == {[name |-> f_csv, content |-> c] : c \in StoreContents}
StoreConfigs == {DefaultMapping, SnakeCaseMapping}

NextStore ==
  \/ \E r \in Runs, file \in StoreFiles, src \in Sources : CUpload(r, file, src)
  \/ \E r \in Runs : CParseDone(r)
  \/ \E r \in Runs, ok \in BOOLEAN : CStore(r, ok)
  \/ \E r \in Runs : CNextRequest(r)
  \/ \E m \in StoreConfigs : RegisterMapping("vendor2", TRUE, m)

SpecStore == Init /\ [][NextStore]_vars

----------------------------------------------------------------------------
(* Properties *)

Normalized == nStage \in {"normalized", "validated"}

\* key, as normalizeRecord compares it, equals or contains the alias
KeyMatchesAlias(key, alias) ==
  LET k == trim(toLowerCase(key))
      a == toLowerCase(alias)
  IN a = k \/ includes(k, a)

KeyMatchesField(key, aliases) ==
  \E j \in 1..Len(aliases) : KeyMatchesAlias(key, aliases[j])

\* The value the first-match rule selects: the first alias, in list order,
\* that some key matches, and for it the first matching key in record order
FirstMatchValue(aliases, entries) ==
  LET matched == {j \in 1..Len(aliases) :
                    \E i \in 1..Len(entries) : KeyMatchesAlias(entries[i].key, aliases[j])}
  IN IF matched = {} THEN Null
     ELSE LET j == CHOOSE x \in matched : \A y \in matched : x <= y
              keys == {i \in 1..Len(entries) : KeyMatchesAlias(entries[i].key, aliases[j])}
              i == CHOOSE x \in keys : \A y \in keys : x <= y
          IN entries[i].value

\* C1: every target field of the active mapping holds the value of the first
\* matching source key (alias-list order first, then record key order); a
\* later matching key never overwrites it.
C1_FirstMatchWins ==
  Normalized =>
    \A targetField \in DOMAIN ActiveMapping(nKey) :
      nOut.rec[targetField] =
        FirstMatchValue(ActiveMapping(nKey)[targetField], nRecord.entries)

RequiredPresent(rec) ==
  \A i \in 1..Len(requiredFields) :
    /\ Field(rec, requiredFields[i]) # Null
    /\ Field(rec, requiredFields[i]).s # <<>>

IsPresent(v) == v # Null /\ v.s # <<>>

\* the configured per-field rules, for the fields that are present
RulesPass(rec) ==
  /\ IsPresent(Field(rec, "zip")) => zipPattern(Field(rec, "zip").s)
  /\ IsPresent(Field(rec, "state")) => Len(Field(rec, "state").s) <= stateMaxLength

\* C3: a normalized record is classified valid if and only if every required
\* field is non-null and non-empty and every configured per-field rule (zip
\* pattern, state maxLength) passes for the fields that are present.
C3_ValidIffRequiredAndRules ==
  nStage = "validated" => (nValid <=> (RequiredPresent(nOut.rec) /\ RulesPass(nOut.rec)))

Summarized == pc = "responded" /\ response.kind = "summary"

\* C4: in every run that reaches Map&Validate the valid count plus the invalid
\* count equals the total record count, in processFile's result and in the
\* summary sent.
C4_ValidPlusInvalidIsTotal ==
  /\ pc \in {"connect", "begin", "query", "commit"} =>
       result.valid + result.invalid = result.total
  /\ Summarized =>
       response.summary.validRecords + response.summary.invalidRecords
         = response.summary.totalRecords

\* a summary that reports both valid and invalid records
C4_Witness ==
  /\ Summarized
  /\ response.summary.validRecords >= 1
  /\ response.summary.invalidRecords >= 1

\* C5: in every successful run the saved count is at most the valid count, and
\* it equals the valid count when the store raised no per-record error.
C5_StoredAtMostValid ==
  Summarized =>
    /\ response.summary.savedRecords <= response.summary.validRecords
    /\ recordErrors = 0 =>
         response.summary.savedRecords = response.summary.validRecords

\* a summary for a batch of two or more valid records stored without error
C5_Witness ==
  /\ Summarized
  /\ recordErrors = 0
  /\ response.summary.validRecords >= 2
  /\ response.summary.savedRecords = response.summary.validRecords

\* C6: when the store fails for k of the n valid records of a batch, every
\* record is still attempted, the run ends with a summary reporting
\* stored = n - k, and the per-record failures cause no error response.
C6_PartialStoreFailure ==
  /\ pc = "commit" =>
       /\ idx = Len(result.records) + 1
       /\ savedCount = Len(result.records) - recordErrors
  /\ Summarized =>
       response.summary.savedRecords = response.summary.validRecords - recordErrors
  /\ (pc = "responded" /\ recordErrors > 0 /\ response.kind = "error") =>
       response.error \in {"COMMIT failed", "unlink failed"}

\* three valid records, one per-record store error, stored = 2, summary sent
C6_Witness ==
  /\ Summarized
  /\ response.summary.validRecords = 3
  /\ recordErrors = 1
  /\ response.summary.savedRecords = 2

\* C7: no transaction spans the batch: a storage failure of one record never
\* prevents another valid record of the same batch, whose own statement can
\* succeed, from being durably persisted.
C7_NoAllOrNothing ==
  Summarized =>
    \A i \in 1..Len(result.records) :
      statementSucceeds(result.records[i]) => i \in persisted

\* C8: in every run that returns a summary the reported stored count equals
\* the number of records of the run that are persisted when the response is
\* sent.
C8_StoredCountIsPersistedCount ==
  Summarized => response.summary.savedRecords = Cardinality(persisted)

ParseSucceeded == \E i \in 1..Len(stages) : stages[i] = "Map"

\* C9: every run whose Detect and Parse stages succeed ends in Done with a
\* summary; no failure in Map&Validate or in Store makes it Failed.
C9_DoneUnlessDetectOrParseFails ==
  (pc = "responded" /\ ParseSucceeded) => response.kind = "summary"

\* C9 amended: a run whose Detect and Parse stages succeed ends with a
\* summary, or with an error response whose cause is a TypeError of
\* normalizeRecord, a failed connect, BEGIN or COMMIT, or a failed unlink; a
\* per-record store error is never the cause, and once the loop has run
\* only COMMIT or unlink can be.
C9_DoneUnlessBatchLevelFailure ==
  (pc = "responded" /\ ParseSucceeded) =>
    \/ response.kind = "summary"
    \/ /\ response.kind = "error"
       /\ response.error \in {"TypeError", "connect failed", "BEGIN failed",
                              "COMMIT failed", "unlink failed"}
       /\ recordErrors > 0 => response.error \in {"COMMIT failed", "unlink failed"}

\* a run that ends with a summary although per-record store errors occurred
C9_Witness ==
  /\ Summarized
  /\ ParseSucceeded
  /\ recordErrors >= 1

\* C10: after any sequence of registrations no registered config has an empty
\* alias list for a required target field (register rejects such a config and
\* leaves the registry unchanged).
C10_RequiredAliasesNonEmpty ==
  \A name \in DOMAIN fieldMappings :
    \A i \in 1..Len(requiredFields) :
      requiredFields[i] \in DOMAIN fieldMappings[name]
        => fieldMappings[name][requiredFields[i]] # <<>>

\* the root shapes the JSON parser is to accept: one object, or an array whose
\* elements are all objects
RootAccepted(file) ==
  /\ file.readable
  /\ file.wellFormed
  /\ \/ file.root.kind = "object"
     \/ /\ file.root.kind = "array"
        /\ \A i \in 1..Len(file.root.elems) : file.root.elems[i].kind = "object"

\* C11: parseJSON resolves exactly for a root that is one object (wrapped as a
\* one-element sequence) or an array of objects; every other root shape
\* (number, string, boolean, null, array with a non-object element) is
\* rejected with a parse error.
C11_OnlyObjectRootsAccepted ==
  jStage = "settled" =>
    /\ jOut.error <=> ~RootAccepted(jDoc)
    /\ (RootAccepted(jDoc) /\ jDoc.root.kind = "object") =>
         jOut.records = <<RawObject(jDoc.root.entries)>>

\* C12: a lookup by a name that is not registered uses the config named
\* default: normalizeRecord's mapping is fieldMappings.default and the record
\* it returns is the one the default config yields.
C12_UnregisteredNameUsesDefault ==
  (Normalized /\ nKey \notin DOMAIN fieldMappings) =>
    /\ DOMAIN ActiveMapping(nKey) = DOMAIN fieldMappings["default"]
    /\ \A targetField \in DOMAIN fieldMappings["default"] :
         ActiveMapping(nKey)[targetField] = fieldMappings["default"][targetField]
    /\ nOut.rec = assignEntries(fieldMappings["default"],
                                initNulls(fieldMappings["default"]),
                                nRecord.entries, 1)

SupportedExtensions == {x_csv, x_xlsx, x_xls, x_json, x_txt}

UnsupportedName(name) == toLowerCase(extname(name)) \notin SupportedExtensions

\* C13: an upload whose file name's extension is, case-insensitively, none of
\* .csv, .xlsx, .xls, .json, .txt never reaches a parser: the request is
\* answered with the unsupported-file-type error after Detect, no record is
\* normalized, no statement is sent to the store and no summary is returned;
\* a supported name is not answered that way.
C13_UnsupportedExtensionFails ==
  /\ pc = "parse" => ~UnsupportedName(originalname)
  /\ (pc = "responded" /\ originalname # <<>>) =>
       /\ UnsupportedName(originalname)
       /\ response = ErrorResponse(500, "Unsupported file type")
       /\ stages = <<"Detect">>
       /\ parsed = "none"
       /\ result = NoResult
       /\ idx = 0 /\ applied = {} /\ persisted = {}
  /\ (pc = "responded" /\ response.error = "Unsupported file type") =>
       UnsupportedName(originalname)

\* a .pdf upload answered with the unsupported-file-type error
C13_Witness ==
  /\ pc = "responded"
  /\ originalname = f_pdf
  /\ response.error = "Unsupported file type"
  /\ tmpFile

\* C14: when the parser's promise is rejected the request is answered at once
\* with the parse error: normalizeRecord is not called (no Map stage, no
\* result), saveRecords is not called (no statement, nothing counted or
\* persisted) and no summary is sent.
C14_ParseFailureAborts ==
  parsed = "rejected" =>
    /\ pc = "responded"
    /\ response = ErrorResponse(500, "parse error")
    /\ stages = <<"Detect", "Parse">>
    /\ result = NoResult
    /\ idx = 0 /\ savedCount = 0 /\ recordErrors = 0
    /\ applied = {} /\ persisted = {}

\* a request answered with the parse error
C14_Witness ==
  /\ parsed = "rejected"
  /\ pc = "responded"
  /\ response.kind = "error"

\* required fields for which no source key of nRecord matches any alias of the
\* active mapping
MissingRequired ==
  {i \in 1..Len(requiredFields) :
     \/ requiredFields[i] \notin DOMAIN ActiveMapping(nKey)
     \/ \A k \in 1..Len(nRecord.entries) :
          ~KeyMatchesField(nRecord.entries[k].key,
                           ActiveMapping(nKey)[requiredFields[i]])}

\* what processFile returns for a file holding only nRecord
OutcomeOfRecord == processRecords(<<nRecord>>, nKey)

WholeConfigs == {DefaultMapping, Vendor1Mapping, Vendor2Mapping, SnakeCaseMapping}

\* request r has looked its mapping up
HasRead(r) ==
  \/ cPc[r] = "store"
  \/ cPc[r] = "responded" /\ cResponse[r].kind = "summary"

\* C16: under every interleaving of registrations of an existing name with
\* uploads in flight, each registered config and each config a run's lookup
\* returned is one whole supplied config (the old one or the new one), never
\* a mixture of two.
C16_LookupSeesWholeConfig ==
  /\ \A name \in DOMAIN fieldMappings : fieldMappings[name] \in WholeConfigs
  /\ \A r \in Runs : HasRead(r) => cRead[r] \in WholeConfigs

\* request 1, still in flight, read the vendor2 config that a registration
\* has replaced since
C16_Witness ==
  /\ cPc[1] = "store"
  /\ cRead[1] = Vendor2Mapping
  /\ fieldMappings["vendor2"] = DefaultMapping

\* the counts a file yields under a config, computed record by record
ExpectedCounts(file, mapping) ==
  LET recs == file.content.records
      valid == {i \in 1..Len(recs) :
                  isValidRecord(assignEntries(mapping, initNulls(mapping),
                                              recs[i].entries, 1))}
  IN [total |-> Len(recs), valid |-> Cardinality(valid),
      invalid |-> Len(recs) - Cardinality(valid)]

\* C17: the total, valid and invalid counts of a run are those its own file
\* yields under the config it read, whatever the other request and the
\* registrations do in between, in processFile's result and in the summary.
C17_CountsDependOnOwnRunOnly ==
  \A r \in Runs :
    HasRead(r) =>
      LET expected == ExpectedCounts(cFile[r], cRead[r])
      IN /\ cResult[r].total = expected.total
         /\ cResult[r].valid = expected.valid
         /\ cResult[r].invalid = expected.invalid
         /\ cResponse[r].kind = "summary" =>
              /\ cResponse[r].summary.totalRecords = expected.total
              /\ cResponse[r].summary.validRecords = expected.valid
              /\ cResponse[r].summary.invalidRecords = expected.invalid

\* two requests in flight with the same file content whose lookups returned
\* different configs: one has its summary, the other is about to store, and
\* their valid counts differ
C17_Witness ==
  /\ cPc[1] = "responded" /\ cResponse[1].kind = "summary"
  /\ cPc[2] = "store"
  /\ cFile[1].content = cFile[2].content
  /\ cResult[1].valid # cResult[2].valid

\* C18: registering a (name, config) pair that the registry already holds, or
\* registering any pair twice in a row, leaves the registry as the first
\* registration left it: every name maps to the same config.
C18_RegisterIdempotent ==
  \A name \in RegNames \ {""}, m \in RegConfigs :
    LET once == setMapping(fieldMappings, name, m)
        twice == setMapping(once, name, m)
    IN /\ DOMAIN twice = DOMAIN once
       /\ \A n \in DOMAIN once : twice[n] = once[n]
       /\ (name \in DOMAIN fieldMappings /\ fieldMappings[name] = m) =>
            once = fieldMappings

\* vendor3 has been registered with the vendor2 config, default replaced, and
\* the listing returned after that shows the registry
C18_Witness ==
  /\ mappingResponse = 201
  /\ "vendor3" \in DOMAIN fieldMappings
  /\ fieldMappings["vendor3"] = Vendor2Mapping
  /\ fieldMappings["default"] = NoNameAliasMapping
  /\ listing = fieldMappings

StageOrder == <<"Detect", "Parse", "Map", "Store", "Summarize">>

\* C19: the stages a request has entered are a prefix of Detect, Parse,
\* Map&Validate, Store, Summarize (in order, each once); while saveRecords
\* runs the records are already normalized and validated and no response has
\* been sent; the summary is sent only after saveRecords has gone through the
\* whole batch and closed its transaction.
C19_StagesInOrder ==
  /\ Len(stages) <= Len(StageOrder)
  /\ \A i \in 1..Len(stages) : stages[i] = StageOrder[i]
  /\ pc \in {"connect", "begin", "query", "commit"} =>
       /\ stages = <<"Detect", "Parse", "Map", "Store">>
       /\ parsed = "resolved"
       /\ response = NoResponse
       /\ result.valid = Len(result.records)
  /\ response.kind = "summary" =>
       /\ pc = "responded"
       /\ stages = StageOrder
       /\ idx = Len(result.records) + 1
       /\ txTable = <<>>

\* a summary sent after a batch of two or more records went through the store
C19_Witness ==
  /\ Summarized
  /\ stages = StageOrder
  /\ Len(result.records) >= 2
  /\ idx = Len(result.records) + 1

\* C20: every record handed to saveRecords has all required fields truthy,
\* and every row of the records table, committed or inside the open
\* transaction, has a non-empty auth_id and a non-empty name.
C20_OnlyValidRecordsStored ==
  /\ \A i \in 1..Len(result.records) : isValidRecord(result.records[i])
  /\ \A k \in DOMAIN table : k # <<>> /\ Truthy(table[k].name)
  /\ \A k \in DOMAIN txTable : k # <<>> /\ Truthy(txTable[k].name)

\* a file with an invalid record among valid ones went through: the valid ones
\* are in the table
C20_Witness ==
  /\ Summarized
  /\ response.summary.invalidRecords >= 1
  /\ persisted # {}
  /\ table # <<>>

----------------------------------------------------------------------------
(* Delimited text *)

TextSettled == tStage = "settled" /\ tData.readable

\* the header line parseText reads the field names from
HeaderLine == textLines(tData.data)[1]

\* the text before the first line break, as the file has it
FirstLine == split(tData.data, "\n")[1]

\* C21 as stated: the delimiter is the tab exactly when the header line
\* contains a tab, and the comma otherwise, also when the header line contains
\* neither.
C21_TabIffHeaderHasTab ==
  TextSettled =>
    tDelimiter = (IF includes(HeaderLine, <<"\t">>) THEN "\t" ELSE ",")

\* C21 amended: the delimiter is the comma exactly when the first line of the
\* file's text, before any trimming, contains a comma and no tab, and the tab
\* otherwise, also when that line contains neither.
C21_CommaIffFirstLineHasCommaAndNoTab ==
  TextSettled =>
    /\ tDelimiter \in {",", "\t"}
    /\ tDelimiter = "," <=>
         /\ \E i \in 1..Len(FirstLine) : FirstLine[i] = ","
         /\ \A i \in 1..Len(FirstLine) : FirstLine[i] # "\t"

\* a header with neither character: the tab is used and a data value keeps
\* its comma
C21_Witness ==
  /\ TextSettled
  /\ ~includes(FirstLine, <<",">>) /\ ~includes(FirstLine, <<"\t">>)
  /\ tDelimiter = "\t"
  /\ Len(tOut.records) = 1
  /\ Len(tOut.records[1].entries) = 1
  /\ tOut.records[1].entries[1].value = Str(<<"a", ",", "b">>)

HeaderNames == {textHeaders(tData.data)[i] : i \in 1..Len(textHeaders(tData.data))}

KeysOfEntries(entries) == {entries[k].key : k \in 1..Len(entries)}

\* the value of the last header cell named h, for the row of values
LastCell(h, values) ==
  LET headers == textHeaders(tData.data)
      last == CHOOSE i \in 1..Len(headers) :
                /\ headers[i] = h
                /\ \A j \in 1..Len(headers) : headers[j] = h => j <= i
  IN [missing |-> last > Len(values), index |-> last]

\* C22: parseText never rejects a readable file; it returns one record per
\* line after the header line, each with exactly the header's field names as
\* keys, and with null for every field the row has no value for.
C22_RecordsHaveHeaderKeys ==
  TextSettled =>
    /\ ~tOut.error
    /\ Len(tOut.records) = Len(textLines(tData.data)) - 1
    /\ \A r \in 1..Len(tOut.records) :
         LET entries == tOut.records[r].entries
             values == split(textLines(tData.data)[r + 1], tDelimiter)
         IN /\ DistinctKeys(entries)
            /\ KeysOfEntries(entries) = HeaderNames
            /\ \A k \in 1..Len(entries) :
                 LastCell(entries[k].key, values).missing => entries[k].value = Null
----------------------------------------------------------------------------
(* Storing a batch again *)

\* db.saveRecords(records) called on the table rows: the table it leaves
saveRecordsAgain(rows, records) ==
  LET tx == txLoop([rows |-> rows, aborted |-> FALSE, count |-> 0], records, 1)
  IN [table |-> IF tx.aborted THEN rows ELSE tx.rows, count |-> tx.count]

\* C23: once saveRecords has stored a batch, calling it again with the same
\* batch leaves the table with the same auth_id keys and, for each key, the
\* same name, address1, city, state and zip.
C23_SecondSaveChangesNothing ==
  Summarized =>
    LET again == saveRecordsAgain(table, result.records).table
    IN /\ DOMAIN again = DOMAIN table
       /\ \A k \in DOMAIN table : again[k] = table[k]

\* a batch of two records was committed and the second call upserts both again
C23_Witness ==
  /\ Summarized
  /\ Cardinality(persisted) >= 2
  /\ saveRecordsAgain(table, result.records).count = Len(result.records)
  /\ \A i \in 1..Len(result.records) :
       Field(result.records[i], "authId").s \in DOMAIN table
----------------------------------------------------------------------------
(* The listing of the registry *)

\* what GET /api/mappings returns for the registry
Listed == listedMappings(fieldMappings)

\* C24: GET /api/mappings returns "default", "vendor1" and every registered
\* name, each with its most recent config: a registration answered 201 puts
\* its name with its config into what the listing returns, removes no entry
\* and changes no other name's entry, and the listing returns exactly that.
C24_ListingHasEveryRegisteredName ==
  [][/\ {"default", "vendor1"} \subseteq DOMAIN Listed
     /\ \A name \in ListNames \ {""}, m \in RegConfigs :
          RegisterMapping(name, TRUE, m) =>
            /\ name \in DOMAIN Listed'
            /\ Listed'[name] = m
            /\ \A n \in (DOMAIN Listed) \ {name} :
                 n \in DOMAIN Listed' /\ Listed'[n] = Listed[n]
     /\ ListMappings => listing' = Listed]_vars
----------------------------------------------------------------------------
(* One config per run *)

\* the record normalizeRecord builds from a parsed record under a config
NormalizedUnder(mapping, record) ==
  assignEntries(mapping, initNulls(mapping), record.entries, 1)

\* C25: the records a run hands on are its file's records normalized, each
\* of them, under the one config the run looked up after parsing, whatever
\* was registered while the run was in progress and whatever config the name
\* had when the request was submitted.
C25_OneConfigPerRun ==
  \A r \in Runs :
    HasRead(r) =>
      LET recs == cFile[r].content.records
      IN cResult[r].records =
           filterValid([i \in 1..Len(recs) |-> NormalizedUnder(cRead[r], recs[i])])

\* request 1 was submitted while vendor2 had its first config, vendor2 was
\* registered again before the parser finished, and both records of the file
\* were normalized under the second config
C25_Witness ==
  /\ cPc[1] = "store"
  /\ cSubmitted[1] = Vendor2Mapping
  /\ cRead[1] = DefaultMapping
  /\ Len(cFile[1].content.records) = 2
  /\ cResult[1].records = <<NormalizedUnder(DefaultMapping, r_ok1)>>

----------------------------------------------------------------------------
(* One row per auth_id *)

BatchKeys(records) == {Field(records[i], "authId").s : i \in 1..Len(records)}

\* the last record of the batch with the auth_id key
LastWithKey(records, key) ==
  LET hits == {i \in 1..Len(records) : Field(records[i], "authId").s = key}
  IN records[CHOOSE i \in hits : \A j \in hits : j <= i]

\* request r's saveRecords returns with its transaction committed
Commits(r) ==
  /\ cPc[r] = "store"
  /\ cPc'[r] = "responded"
  /\ cResponse'[r].kind = "summary"
  /\ \A i \in 1..Len(cResult[r].records) : statementSucceeds(cResult[r].records[i])

\* C26: when saveRecords commits a batch, the table has one row for each
\* auth_id of the batch and the rows it had for other auth_ids, unchanged: no
\* auth_id gets a second row.  The saved count is the number of records of the
\* batch, repeated auth_ids included, and the row of each auth_id of the batch
\* has the values of the last record of the batch with that auth_id.
C26_OneRowPerAuthIdLastWins ==
  [][\A r \in Runs :
       Commits(r) =>
         LET recs == cResult[r].records
         IN /\ cResponse'[r].summary.savedRecords = Len(recs)
            /\ DOMAIN table' = (DOMAIN table) \cup BatchKeys(recs)
            /\ \A k \in BatchKeys(recs) : table'[k] = Row(LastWithKey(recs, k))
            /\ \A k \in (DOMAIN table) \ BatchKeys(recs) : table'[k] = table[k]]_vars

\* a batch with the same auth_id twice and different values was committed:
\* both records are counted and the row has the second record's values
C26_Witness ==
  \E r \in Runs :
    /\ cPc[r] = "responded"
    /\ cResponse[r].kind = "summary"
    /\ cResponse[r].summary.savedRecords = 2
    /\ Len(cResult[r].records) = 2
    /\ BatchKeys(cResult[r].records) = {v_A1}
    /\ Row(cResult[r].records[1]) # Row(cResult[r].records[2])
    /\ DOMAIN table = {v_A1}
    /\ table[v_A1] = Row(cResult[r].records[2])

----------------------------------------------------------------------------
(* A config without the required target fields *)

LacksRequiredTarget(mapping) ==
  \E i \in 1..Len(requiredFields) : requiredFields[i] \notin DOMAIN mapping

\* C29: a run whose config has no target field for some required field
\* classifies every record invalid: valid = 0, invalid = total, the batch
\* handed to saveRecords is empty and the summary reports no saved record.
C29_NoRequiredTargetNoValidRecord ==
  \A r \in Runs :
    (HasRead(r) /\ LacksRequiredTarget(cRead[r])) =>
      /\ cResult[r].valid = 0
      /\ cResult[r].invalid = cResult[r].total
      /\ cResult[r].records = <<>>
      /\ cResponse[r].kind = "summary" =>
           /\ cResponse[r].summary.validRecords = 0
           /\ cResponse[r].summary.invalidRecords = cResponse[r].summary.totalRecords
           /\ cResponse[r].summary.savedRecords = 0

\* a file of two records, each with a name and an auth_id value, went through
\* under the config with target auth_id: both are invalid, the table is empty
C29_Witness ==
  /\ cPc[1] = "responded"
  /\ cResponse[1].kind = "summary"
  /\ cRead[1] = SnakeCaseMapping
  /\ cFile[1].content.records = <<r_ok1, r_dup>>
  /\ cResponse[1].summary.totalRecords = 2
  /\ cResponse[1].summary.invalidRecords = 2
  /\ table = <<>>
----------------------------------------------------------------------------
(* The temporary file *)

\* C27: once an upload request that received a file has been answered, with
\* the summary or with an error, its temporary file no longer exists.
C27_TempFileGoneWhenAnswered ==
  pc = "responded" => ~tmpFile
----------------------------------------------------------------------------
(* The workflow *)

ReportStates == {"ReportSuccess", "ReportValidationFailure", "ReportNoValidRecords"}

Entered(state) == \E i \in 1..Len(wTrail) : wTrail[i] = state

\* C28: StoreData is entered only after ValidateFile returned isValid = true
\* and MapFields returned valid > 0; no state is entered twice, so an
\* execution whose tasks all return ends, and it ends in exactly one of
\* ReportSuccess, ReportValidationFailure and ReportNoValidRecords; with zero
\* valid records it ends in ReportNoValidRecords and StoreData is not entered.
C28_StoreOnlyAfterValidation ==
  /\ Entered("StoreData") =>
       /\ wData.validation.present /\ wData.validation.isValid
       /\ wData.mappedData.present /\ wData.mappedData.valid > 0
  /\ \A i, j \in 1..Len(wTrail) : i # j => wTrail[i] # wTrail[j]
  /\ \A i \in 1..Len(wTrail) : wTrail[i] \in ReportStates => i = Len(wTrail)
  /\ wState = "Succeeded" => wTrail[Len(wTrail)] \in ReportStates
  /\ (wData.mappedData.present /\ wData.mappedData.valid = 0) =>
       /\ ~Entered("StoreData")
       /\ wState = "Succeeded" => wTrail[Len(wTrail)] = "ReportNoValidRecords"
  /\ (wData.validation.present /\ ~wData.validation.isValid) =>
       /\ ~Entered("StoreData")
       /\ wState = "Succeeded" => wTrail[Len(wTrail)] = "ReportValidationFailure"

\* an execution that parsed three records, of which two were valid, stored
\* them and ended in ReportSuccess
C28_Witness ==
  /\ wState = "Succeeded"
  /\ wData.parsedData.count = 3
  /\ wData.mappedData.valid = 2
  /\ wData.storageResult.present
  /\ wTrail = <<"ValidateFile", "FileValid?", "DetermineFileType", "ParseFile",
                "MapFields", "AnyValidRecords?", "StoreData", "ReportSuccess">>

----------------------------------------------------------------------------
(* The blockchain *)

\* C30: isChainValid() returns true after any sequence of addBlock calls, and
\* false once the data of a block, the genesis block included, has been
\* changed without recomputing its hash.
C30_ValidUnlessTampered ==
  chainValid # "none" =>
    chainValid = (IF tampered = 0 THEN "true" ELSE "false")
====
